---- MODULE Spec2Model ----
(***************************************************************************)
(* DocumentStore (app/agents/crawler_agent/database/doc_store.py): a       *)
(* SQLite file with two tables, downloaded_urls and documents, used from   *)
(* several threads, each through its own thread-local connection.          *)
(*                                                                         *)
(* Time is counted in seconds.  A naive datetime is the integer number of  *)
(* seconds on its wall clock; utcnow() reads the UTC wall clock and now()  *)
(* the host's local wall clock (UTC + the host's offset).                  *)
(*                                                                         *)
(* SQLite locking (rollback journal, the default): a write statement takes *)
(* the RESERVED lock of the file and keeps its change private to the       *)
(* connection until commit(); commit() needs every SHARED lock of other    *)
(* connections released; a SELECT that yields a row holds a SHARED lock    *)
(* until the row is fetched.  A call that finds the lock taken waits for   *)
(* it (busy handler); the waits are modelled as blocking.                  *)
(***************************************************************************)
EXTENDS Integers, Sequences, FiniteSets, TLC

\* ------------------------------------------------------------------ bounds
MaxCalls == 2       \* calls of store methods started in one behaviour

Threads == {"t1", "t2"}
Urls == {"u1", "u2"}
\* the instants (UTC, seconds) at which something can happen
Instants == {0, 3600, 3660}
\* UTC offset of the host, in seconds (UTC-5, UTC)
TzOffsets == {0 - 18000, 0}
Amounts == {1, 2}
\* keyword names tried as time_unit: the first five are timedelta keywords
TimeUnits == {"seconds", "minutes", "hours", "days", "weeks", "months"}

\* ------------------------------------------------------------ Python values
None == [py |-> "None"]
Str(s) == [py |-> "str", s |-> s]
EmptyStr == Str(<<>>)
\* the truth value of an Optional[str]: None and "" are falsy
Truthy(x) == x.py = "str" /\ x.s # <<>>
\* variant: the argument is bound as it came, without "or"
Or_Unnormalised(x, d) == x

\* x or d
Or(x, d) == IF Truthy(x) THEN x ELSE d

\* ------------------------------------------------------------ SQLite values
SqlNull == [sql |-> "NULL"]
SqlText(s) == [sql |-> "TEXT", s |-> s]
\* sqlite3 adapts a bound parameter: None -> NULL, str -> TEXT
Adapt(x) == IF x.py = "None" THEN SqlNull ELSE SqlText(x.s)
NoRow == [sql |-> "norow"]
\* cursor.fetchone(): the first row of the result, or None
fetchone(rows) == IF rows = <<>> THEN NoRow ELSE rows[1]
Absent == [sql |-> "notable"]

\* --------------------------------------------------------------- datetimes
\* datetime.isoformat() of a naive datetime: the text of that wall clock time
isoformat(dt) == Str(<<"iso", dt>>)
ValueError == [err |-> "ValueError"]
TypeError == [err |-> "TypeError"]
AttributeError == [err |-> "AttributeError"]
IsError(x) == "err" \in DOMAIN x
\* variant: a text that is no timestamp is read as the epoch
fromisoformat_Lenient(text) ==
    IF Len(text) = 2 /\ text[1] = "iso" THEN [dt |-> text[2]] ELSE [dt |-> 0]

\* datetime.fromisoformat(text): the datetime, or ValueError when the text is
\* no ISO timestamp
fromisoformat(text) ==
    IF Len(text) = 2 /\ text[1] = "iso" THEN [dt |-> text[2]] ELSE ValueError

\* timedelta(**{unit: amount}): seconds of the interval, TypeError for a name
\* that is no keyword of timedelta
SecondsPer ==
    [seconds |-> 1, minutes |-> 60, hours |-> 3600, days |-> 86400,
     weeks |-> 604800]
timedelta(unit, amount) ==
    IF unit \in DOMAIN SecondsPer
    THEN [delta |-> amount * SecondsPer[unit]]
    ELSE TypeError

VARIABLES
    downloaded_urls,  \* committed table: url -> the rows stored with that key
    documents,        \* committed table: url -> the rows stored with that key
    reserved,         \* connection holding the RESERVED lock, 0 for none
    shared,           \* connections holding a SHARED lock
    _local,           \* per thread: connection cached by the store, 0 for none
    open,             \* connections opened and not closed
    clock,            \* the UTC instant
    tz,               \* the host's UTC offset
    pc,               \* per thread: the call in progress and its position
    ret,              \* the last finished call and its outcome
    recordedAt,       \* history: url -> instant of the last recorded download
    calls             \* calls started

vars ==
    <<downloaded_urls, documents, reserved, shared, _local, open,
      clock, tz, pc, ret, recordedAt, calls>>

utcnow == clock
now == clock + tz

Never == 0 - 1
Idle == [at |-> "idle"]
NoRet == [op |-> "none"]

\* a fresh connection object: one that is not open
NewConn == CHOOSE c \in 1..(Cardinality(open) + 1) : c \notin open

\* ------------------------------------------------------------------ schema
\* variant: DROP TABLE IF EXISTS, then CREATE TABLE
CreateTable_Dropping(table) == [u \in Urls |-> <<>>]

\* CREATE TABLE IF NOT EXISTS: an existing table is left as it is
CreateTableIfNotExists(table) ==
    IF table = Absent THEN [u \in Urls |-> <<>>] ELSE table

\* _init_schema on a file holding the two tables (or not yet)
_init_schema(file) ==
    [downloaded_urls |-> CreateTableIfNotExists(file.downloaded_urls),
     documents |-> CreateTableIfNotExists(file.documents)]

NoFile == [downloaded_urls |-> Absent, documents |-> Absent]

Init ==
    /\ downloaded_urls = _init_schema(NoFile).downloaded_urls
    /\ documents = _init_schema(NoFile).documents
    /\ reserved = 0
    /\ shared = {}
    /\ _local = [t \in Threads |-> 0]
    /\ open = {}
    /\ clock = 0
    /\ tz \in TzOffsets
    /\ pc = [t \in Threads |-> Idle]
    /\ ret = NoRet
    /\ recordedAt = [u \in Urls |-> Never]
    /\ calls = 0

\* --------------------------------------------------------------- documents
Params ==
    {"titulo", "causas", "sintomas", "nombres_alternativos",
     "primeros_auxilios", "no_se_debe", "ejemplo_consulta"}
TextColumns == Params

\* arguments of upsert_document: every field given, as text version v
Doc(v) == [p \in Params |-> Str(<<p, v>>)]
\* only titulo given; causas None, sintomas "", the rest None or left out
Sparse ==
    [p \in Params |->
        IF p = "titulo" THEN Str(<<p, 3>>)
        ELSE IF p = "sintomas" THEN EmptyStr ELSE None]
DocInputs == {Doc(1), Sparse}

\* the tuple of values bound by upsert_document, column by column
DocumentRow(a, stamp) ==
    [titulo |-> Adapt(Or(a.titulo, EmptyStr)),
     causas |-> Adapt(Or(a.causas, EmptyStr)),
     sintomas |-> Adapt(Or(a.sintomas, EmptyStr)),
     primeros_auxilios |-> Adapt(Or(a.primeros_auxilios, EmptyStr)),
     no_se_debe |-> Adapt(Or(a.no_se_debe, EmptyStr)),
     nombres_alternativos |-> Adapt(Or(a.nombres_alternativos, EmptyStr)),
     ejemplo_consulta |-> Adapt(Or(a.ejemplo_consulta, EmptyStr)),
     timestamp |-> Adapt(stamp)]

\* the tuple of values bound by record_url_download
DownloadRow(stamp) == [timestamp |-> Adapt(stamp)]

\* ----------------------------------------------------------------- engine
\* variant: an upsert that keeps the old value of a column whose new value
\* is empty
InsertOrMerge(table, u, row) ==
    [table EXCEPT ![u] =
        IF table[u] = <<>> THEN <<row>>
        ELSE <<[c \in DOMAIN row |->
                  IF row[c] = SqlText(<<>>) THEN table[u][1][c] ELSE row[c]]>>]

\* variant: the table is emptied before the row is inserted
InsertAfterDelete(table, u, row) ==
    [v \in Urls |-> IF v = u THEN <<row>> ELSE <<>>]

\* variant: url is no PRIMARY KEY, nothing conflicts and the row is added
Insert_NoPrimaryKey(table, u, row) == [table EXCEPT ![u] = Append(@, row)]

\* INSERT OR REPLACE INTO table ... with url the PRIMARY KEY: the rows of
\* that key are deleted and the new row is inserted
InsertOrReplace(table, u, row) == [table EXCEPT ![u] = <<row>>]

\* variant: the WHERE clause is missing, any row answers
Select_AnyRow(table, u) ==
    IF \E v \in Urls : table[v] # <<>>
    THEN fetchone(table[CHOOSE v \in Urls : table[v] # <<>>])
    ELSE NoRow

\* SELECT ... WHERE url = ? ; fetchone(): the row of the key, or NoRow
Select(table, u) == fetchone(table[u])

\* variant: commit() is never called, the statement stays pending
Commit_Missing(table, name, tx) == table

\* variant: the write reaches the file one column at a time and stops after
\* the first
Commit_Torn(table, name, tx) ==
    IF tx.table # name THEN table
    ELSE IF table[tx.url] = <<>> \/ name # "documents"
         THEN InsertOrReplace(table, tx.url, tx.row)
         ELSE [table EXCEPT ![tx.url] =
                  <<[@[1] EXCEPT !.titulo = tx.row.titulo]>>]

\* variant: the row is written to both tables
Commit_IntoBothTables(table, name, tx) ==
    InsertOrReplace(table, tx.url, tx.row)

\* conn.commit(): the pending statement of the connection reaches the file
Commit(table, name, tx) ==
    IF tx.table = name THEN InsertOrReplace(table, tx.url, tx.row) ELSE table

\* ------------------------------------------------------------ connections
\* variant: nothing is cached, every call opens a connection
_get_connection_Uncached(t) ==
    [conn |-> NewConn,
     local |-> [_local EXCEPT ![t] = NewConn],
     open |-> open \cup {NewConn}]

\* variant: the cache is an attribute of the store, one connection for all
\* threads
_get_connection_Shared(t) ==
    IF _local[t] = 0
    THEN [conn |-> NewConn,
          local |-> [o \in Threads |-> NewConn],
          open |-> open \cup {NewConn}]
    ELSE [conn |-> _local[t], local |-> _local, open |-> open]

\* _get_connection in thread t: the connection cached in the store's
\* thread-local state, opened on the thread's first use
_get_connection(t) ==
    IF _local[t] = 0
    THEN [conn |-> NewConn,
          local |-> [_local EXCEPT ![t] = NewConn],
          open |-> open \cup {NewConn}]
    ELSE [conn |-> _local[t], local |-> _local, open |-> open]

CanCall(t) == pc[t] = Idle /\ calls < MaxCalls

\* positions of a call that writes
Writing == {"rec_execute", "rec_commit", "ups_execute", "ups_commit"}
\* history: another thread is inside a writing call
Overlaps(t) == \E o \in Threads \ {t} : pc[o].at \in Writing

\* ----------------------------------------------------- was_url_downloaded
\* lines 66-68: the thread's connection, SELECT 1 ... WHERE url = ?
was_url_downloaded_execute(t, u) ==
    /\ CanCall(t)
    /\ LET g == _get_connection(t)
           row == Select(downloaded_urls, u)
       IN /\ _local' = g.local
          /\ open' = g.open
          /\ shared' = IF row # NoRow THEN shared \cup {g.conn} ELSE shared
          /\ pc' = [pc EXCEPT ![t] =
                      [at |-> "was_fetch", url |-> u, conn |-> g.conn,
                       row |-> row, had |-> recordedAt[u] # Never]]
    /\ calls' = calls + 1
    /\ UNCHANGED <<downloaded_urls, documents, reserved, clock, tz, ret,
                   recordedAt>>

\* line 69: fetchone() is not None
was_url_downloaded_return(t) ==
    /\ pc[t].at = "was_fetch"
    /\ shared' = shared \ {pc[t].conn}
    /\ ret' = [op |-> "was_url_downloaded", url |-> pc[t].url,
               out |-> [val |-> pc[t].row # NoRow],
               had |-> pc[t].had,
               hasNow |-> recordedAt[pc[t].url] # Never]
    /\ pc' = [pc EXCEPT ![t] = Idle]
    /\ UNCHANGED <<downloaded_urls, documents, reserved, _local, open, clock,
                   tz, recordedAt, calls>>

\* ---------------------------------------------------- record_url_download
\* lines 78-79: the thread's connection
record_url_download_enter(t, u) ==
    /\ CanCall(t)
    /\ LET g == _get_connection(t)
       IN /\ _local' = g.local
          /\ open' = g.open
          /\ pc' = [pc EXCEPT ![t] =
                      [at |-> "rec_execute", url |-> u, conn |-> g.conn,
                       overlap |-> Overlaps(t)]]
    /\ calls' = calls + 1
    /\ UNCHANGED <<downloaded_urls, documents, reserved, shared, clock, tz,
                   ret, recordedAt>>

\* lines 80-83: INSERT OR REPLACE with utcnow().isoformat(); the statement
\* opens the connection's transaction and takes the RESERVED lock
record_url_download_execute(t) ==
    /\ pc[t].at = "rec_execute"
    /\ reserved = 0
    /\ reserved' = pc[t].conn
    /\ pc' = [pc EXCEPT ![t] =
                [at |-> "rec_commit", url |-> pc[t].url, conn |-> pc[t].conn,
                 overlap |-> pc[t].overlap, dt |-> utcnow,
                 tx |-> [table |-> "downloaded_urls", url |-> pc[t].url,
                         row |-> DownloadRow(isoformat(utcnow))]]]
    /\ UNCHANGED <<downloaded_urls, documents, shared, _local, open, clock,
                   tz, ret, recordedAt, calls>>

\* line 84: conn.commit(), and the call returns
record_url_download_commit(t) ==
    /\ pc[t].at = "rec_commit"
    /\ shared \ {pc[t].conn} = {}
    /\ downloaded_urls' = Commit(downloaded_urls, "downloaded_urls", pc[t].tx)
    /\ documents' = Commit(documents, "documents", pc[t].tx)
    /\ reserved' = 0
    /\ recordedAt' = [recordedAt EXCEPT ![pc[t].url] = pc[t].dt]
    /\ ret' = [op |-> "record_url_download", url |-> pc[t].url,
               out |-> None, prev |-> fetchone(downloaded_urls[pc[t].url]),
               overlap |-> pc[t].overlap]
    /\ pc' = [pc EXCEPT ![t] = Idle]
    /\ UNCHANGED <<shared, _local, open, clock, tz, calls>>

\* --------------------------------------------------- check_url_expiration
\* lines 113-124: the answer computed from the fetched row
Expired(row, time_amount, time_unit) ==
    IF row = NoRow THEN [val |-> TRUE]
    ELSE LET db_timestamp == fromisoformat(row.timestamp.s)
         IN IF IsError(db_timestamp) THEN db_timestamp
            ELSE LET time_delta == timedelta(time_unit, time_amount)
                 IN IF IsError(time_delta) THEN time_delta
                    ELSE [val |-> now > db_timestamp.dt + time_delta.delta]

\* lines 101-108: a connection of its own, SELECT timestamp ... WHERE url = ?
\* time_amount and time_unit are not read before line 120: they are drawn
\* where the call reads them
check_url_expiration_execute(t, u) ==
    /\ CanCall(t)
    /\ LET conn == NewConn
           row == Select(downloaded_urls, u)
       IN /\ open' = open \cup {conn}
          /\ shared' = IF row # NoRow THEN shared \cup {conn} ELSE shared
          /\ pc' = [pc EXCEPT ![t] =
                      [at |-> "chk_fetch", url |-> u, conn |-> conn,
                       row |-> row, recAt |-> recordedAt[u]]]
    /\ calls' = calls + 1
    /\ UNCHANGED <<downloaded_urls, documents, reserved, _local, clock, tz,
                   ret, recordedAt>>

\* variant: conn.close() comes last, after the answer is computed, and is
\* skipped when the computation raises
check_url_expiration_return_ClosingLast(t, time_amount, time_unit) ==
    /\ pc[t].at = "chk_fetch"
    /\ shared' = shared \ {pc[t].conn}
    /\ open' = IF IsError(Expired(pc[t].row, time_amount, time_unit))
               THEN open
               ELSE open \ {pc[t].conn}
    /\ ret' = [op |-> "check_url_expiration", url |-> pc[t].url,
               amount |-> time_amount, unit |-> time_unit,
               out |-> Expired(pc[t].row, time_amount, time_unit),
               had |-> pc[t].recAt # Never, saw |-> pc[t].row # NoRow]
    /\ pc' = [pc EXCEPT ![t] = Idle]
    /\ UNCHANGED <<downloaded_urls, documents, reserved, _local, clock, tz,
                   recordedAt, calls>>

\* lines 110-124: fetchone(), conn.close(), the answer or the exception
check_url_expiration_return(t, time_amount, time_unit) ==
    /\ pc[t].at = "chk_fetch"
    /\ shared' = shared \ {pc[t].conn}
    /\ open' = open \ {pc[t].conn}
    /\ ret' = [op |-> "check_url_expiration", url |-> pc[t].url,
               amount |-> time_amount, unit |-> time_unit,
               out |-> Expired(pc[t].row, time_amount, time_unit),
               had |-> pc[t].recAt # Never, saw |-> pc[t].row # NoRow]
    /\ pc' = [pc EXCEPT ![t] = Idle]
    /\ UNCHANGED <<downloaded_urls, documents, reserved, _local, clock, tz,
                   recordedAt, calls>>

\* -------------------------------------------------------- upsert_document
\* lines 140-141: the thread's connection
upsert_document_enter(t, u, a) ==
    /\ CanCall(t)
    /\ LET g == _get_connection(t)
       IN /\ _local' = g.local
          /\ open' = g.open
          /\ pc' = [pc EXCEPT ![t] =
                      [at |-> "ups_execute", url |-> u, conn |-> g.conn,
                       doc |-> a, overlap |-> Overlaps(t)]]
    /\ calls' = calls + 1
    /\ UNCHANGED <<downloaded_urls, documents, reserved, shared, clock, tz,
                   ret, recordedAt>>

\* lines 142-157: INSERT OR REPLACE of the whole row
upsert_document_execute(t) ==
    /\ pc[t].at = "ups_execute"
    /\ reserved = 0
    /\ reserved' = pc[t].conn
    /\ pc' = [pc EXCEPT ![t] =
                [at |-> "ups_commit", url |-> pc[t].url, conn |-> pc[t].conn,
                 doc |-> pc[t].doc, overlap |-> pc[t].overlap,
                 tx |-> [table |-> "documents", url |-> pc[t].url,
                         row |-> DocumentRow(pc[t].doc, isoformat(utcnow))]]]
    /\ UNCHANGED <<downloaded_urls, documents, shared, _local, open, clock,
                   tz, ret, recordedAt, calls>>

\* line 158: conn.commit(), and the call returns
upsert_document_commit(t) ==
    /\ pc[t].at = "ups_commit"
    /\ shared \ {pc[t].conn} = {}
    /\ downloaded_urls' = Commit(downloaded_urls, "downloaded_urls", pc[t].tx)
    /\ documents' = Commit(documents, "documents", pc[t].tx)
    /\ reserved' = 0
    /\ ret' = [op |-> "upsert_document", url |-> pc[t].url, out |-> None,
               doc |-> pc[t].doc, prev |-> fetchone(documents[pc[t].url]),
               overlap |-> pc[t].overlap]
    /\ pc' = [pc EXCEPT ![t] = Idle]
    /\ UNCHANGED <<shared, _local, open, clock, tz, recordedAt, calls>>

\* ----------------------------------------------------------- get_document
\* the methods the class defines; get_html_path takes no self
Methods ==
    {"__init__", "_get_connection", "_init_schema", "was_url_downloaded",
     "record_url_download", "check_url_expiration", "upsert_document",
     "get_html_path"}

\* store.name(...): attribute lookup on the object comes first
Lookup(name) == IF name \in Methods THEN [found |-> name] ELSE AttributeError

get_document(t, u) ==
    /\ CanCall(t)
    /\ ret' = [op |-> "get_document", url |-> u,
               out |-> IF IsError(Lookup("get_document"))
                         THEN Lookup("get_document")
                         ELSE [row |-> Select(documents, u)]]
    /\ calls' = calls + 1
    /\ UNCHANGED <<downloaded_urls, documents, reserved, shared, _local, open,
                   clock, tz, pc, recordedAt>>

\* time passes
Tick ==
    /\ \E i \in Instants : i > clock /\ clock' = i
    /\ UNCHANGED <<downloaded_urls, documents, reserved, shared, _local, open, tz, pc, ret, recordedAt, calls>>

\* DocumentStore(db_path) once more on the same path, between calls (the
\* constructor runs in the main thread, line 28).  The program goes on with
\* the new object, whose thread-local state is fresh (line 14); the earlier
\* object is released, and its cached connections are closed with it.
Construct ==
    /\ \A t \in Threads : pc[t] = Idle
    /\ LET file == [downloaded_urls |-> downloaded_urls, documents |-> documents]
       IN /\ downloaded_urls' = _init_schema(file).downloaded_urls
          /\ documents' = _init_schema(file).documents
    /\ _local' = [t \in Threads |-> 0]
    /\ open' = {}
    /\ ret' = [op |-> "__init__", out |-> None]
    /\ UNCHANGED <<reserved, shared, clock, tz, pc, recordedAt, calls>>

Next ==
    \/ Tick
    \/ Construct
    \/ \E t \in Threads, u \in Urls :
          was_url_downloaded_execute(t, u)
    \/ \E t \in Threads : was_url_downloaded_return(t)
    \/ \E t \in Threads, u \in Urls : record_url_download_enter(t, u)
    \/ \E t \in Threads : record_url_download_execute(t)
    \/ \E t \in Threads : record_url_download_commit(t)
    \/ \E t \in Threads, u \in Urls :
          check_url_expiration_execute(t, u)
    \/ \E t \in Threads, n \in Amounts, unit \in TimeUnits :
          check_url_expiration_return(t, n, unit)
    \/ \E t \in Threads, u \in Urls, a \in DocInputs :
          upsert_document_enter(t, u, a)
    \/ \E t \in Threads : upsert_document_execute(t)
    \/ \E t \in Threads : upsert_document_commit(t)
    \/ \E t \in Threads, u \in Urls : get_document(t, u)

Spec == Init /\ [][Next]_vars

\* somebody edits the stored timestamp of a url by hand, with another tool:
\* the text left there is no ISO timestamp
Garbage == <<"yesterday">>
ManualEdit(u) ==
    /\ downloaded_urls[u] # <<>>
    /\ reserved = 0
    /\ shared = {}
    /\ downloaded_urls' =
          InsertOrReplace(downloaded_urls, u, [timestamp |-> SqlText(Garbage)])
    /\ UNCHANGED <<documents, reserved, shared, _local, open, clock, tz, pc,
                   ret, recordedAt, calls>>

NextEdited == Next \/ \E u \in Urls : ManualEdit(u)

SpecEdited == Init /\ [][NextEdited]_vars

\* ================================================================ claims
\* the units the store is documented to recognise
SpecUnits == {"minutes", "hours", "days", "weeks"}
\* what a column holds for an argument: the text, "" for None and for ""
Stored(x) == IF x = None \/ x = EmptyStr THEN SqlText(<<>>) ELSE SqlText(x.s)
\* the row of one whole call of upsert_document made at instant i
WholeRow(a, i) ==
    [c \in TextColumns \cup {"timestamp"} |->
        IF c = "timestamp" THEN SqlText(<<"iso", i>>) ELSE Stored(a[c])]
\* the interval of a recognised unit, in seconds
Duration(amount, unit) ==
    amount * (CASE unit = "minutes" -> 60
                [] unit = "hours" -> 3600
                [] unit = "days" -> 86400
                [] unit = "weeks" -> 604800)
\* thread t returns from check_url_expiration in this step
ChecksReturn(t) == pc[t].at = "chk_fetch" /\ pc'[t] = Idle
TablesUnchanged == downloaded_urls' = downloaded_urls /\ documents' = documents

\* C1: was_url_downloaded(url) answers False as long as no
\* record_url_download(url) has completed, and True whenever it is called
\* after a record_url_download(url) has returned.
C1_WasDownloadedFollowsRecord ==
    ret.op = "was_url_downloaded" =>
        /\ (~ret.hasNow => ret.out = [val |-> FALSE])
        /\ (ret.had => ret.out = [val |-> TRUE])

C1_Witness ==
    /\ ret.op = "was_url_downloaded"
    /\ ret.had
    /\ ret.out = [val |-> TRUE]

\* C2: for a unit among minutes, hours, days, weeks, check_url_expiration
\* answers True exactly when the url has no record or the UTC instant of its
\* last recorded download plus the interval lies before the instant of the
\* call, and False otherwise (also when the two are equal).
C2_ExpiredByInstant ==
    [][\A t \in Threads :
         (ChecksReturn(t) /\ ret'.unit \in SpecUnits) =>
            ret'.out =
              [val |-> (pc[t].recAt = Never
                        \/ pc[t].recAt + Duration(ret'.amount, ret'.unit) < clock)]
      ]_vars

\* the same on a host whose local time is UTC
C2_ExpiredByInstantOnUtcHost ==
    [][\A t \in Threads :
         (ChecksReturn(t) /\ ret'.unit \in SpecUnits /\ tz = 0) =>
            ret'.out =
              [val |-> (pc[t].recAt = Never
                        \/ pc[t].recAt + Duration(ret'.amount, ret'.unit) < clock)]
      ]_vars

\* C3: check_url_expiration with a unit that is not minutes, hours, days or
\* weeks fails, for every url (recorded or not) and every amount; it never
\* answers True or False, and the failing call changes neither table.
C3_UnknownUnitFails ==
    [][\A t \in Threads :
         (ChecksReturn(t) /\ ret'.unit \notin SpecUnits) =>
            (IsError(ret'.out) /\ TablesUnchanged)
      ]_vars

\* C4: an upsert_document for a url that already has a row leaves every one
\* of the seven text columns equal to the value of this call ("" where the
\* call passed None or left the argument out); nothing of the earlier row
\* stays.
C4_SecondUpsertReplaces ==
    (ret.op = "upsert_document" /\ ret.prev # NoRow) =>
        \A c \in TextColumns : fetchone(documents[ret.url])[c] = Stored(ret.doc[c])

C4_Witness ==
    /\ ret.op = "upsert_document"
    /\ ret.prev # NoRow
    /\ \E c \in TextColumns : ret.prev[c] # fetchone(documents[ret.url])[c]
    /\ \E c \in TextColumns : ret.doc[c] = None

\* C5: get_document(url) gives back the values upsert_document stored for the
\* url, "" for an argument left out, and "not found" (no error) for a url
\* without a row.
C5_GetDocumentRoundTrip ==
    ret.op = "get_document" =>
        /\ ~IsError(ret.out)
        /\ ret.out.row = fetchone(documents[ret.url])
        /\ (fetchone(documents[ret.url]) # NoRow =>
              \A c \in TextColumns : ret.out.row[c].sql = "TEXT")

\* C6: record_url_download calls made concurrently by several threads for
\* different urls all go through: a call that is in progress can always be
\* carried on, and the row of every completed call is in the table, with the
\* instant of that call.
C6_ConcurrentRecordsAllLand ==
    /\ \A u \in Urls :
         recordedAt[u] # Never =>
            fetchone(downloaded_urls[u]) = [timestamp |-> SqlText(<<"iso", recordedAt[u]>>)]
    /\ (\E t \in Threads : pc[t] # Idle) =>
          ENABLED (\E t \in Threads :
                     \/ record_url_download_execute(t)
                     \/ record_url_download_commit(t)
                     \/ upsert_document_execute(t)
                     \/ upsert_document_commit(t)
                     \/ was_url_downloaded_return(t)
                     \/ \E n \in Amounts, unit \in TimeUnits :
                          check_url_expiration_return(t, n, unit))

C6_Witness ==
    /\ ret.op = "record_url_download"
    /\ ret.overlap
    /\ calls = 2
    /\ \A u \in Urls : fetchone(downloaded_urls[u]) # NoRow

\* C7: a write is committed when the call returns: after record_url_download
\* or upsert_document has returned the row is in the file, and every read of
\* the url that starts later, from any thread, finds a row.
C7_CommittedBeforeReturn ==
    /\ (ret.op = "record_url_download" => fetchone(downloaded_urls[ret.url]) # NoRow)
    /\ (ret.op = "upsert_document" => fetchone(documents[ret.url]) # NoRow)
    /\ ((ret.op = "was_url_downloaded" /\ ret.had) => ret.out = [val |-> TRUE])
    /\ ((ret.op = "check_url_expiration" /\ ret.had) => ret.saw)

\* two calls since the store was constructed, each thread has made one (both
\* hold a cached connection): the reader is not the writer
C7_Witness ==
    /\ ret.op = "was_url_downloaded"
    /\ ret.had
    /\ ret.out = [val |-> TRUE]
    /\ calls = 2
    /\ \A t \in Threads : _local[t] # 0

\* C8: a row is written whole: whatever the interleaving of the writers, the
\* row a reader finds for a url is the complete row of one call, never a mix
\* of two.
C8_RowsAreWhole ==
    \A u \in Urls :
        /\ \/ fetchone(documents[u]) = NoRow
           \/ \E a \in DocInputs, i \in Instants : fetchone(documents[u]) = WholeRow(a, i)
        /\ \/ fetchone(downloaded_urls[u]) = NoRow
           \/ \E i \in Instants :
                fetchone(downloaded_urls[u]) = [timestamp |-> SqlText(<<"iso", i>>)]

\* two calls in all, both upsert_document for the same url, the second
\* entered while the first was in progress
C8_Witness ==
    /\ ret.op = "upsert_document"
    /\ ret.overlap
    /\ calls = 2
    /\ ret.prev # NoRow
    /\ ret.prev.causas # fetchone(documents[ret.url]).causas

\* C9: constructing the store again on a path that holds rows leaves both
\* tables as they were.
C9_ConstructKeepsRows == [][Construct => TablesUnchanged]_vars

C9_Witness ==
    /\ ret.op = "__init__"
    /\ \E u \in Urls : fetchone(downloaded_urls[u]) # NoRow
    /\ \E u \in Urls : fetchone(documents[u]) # NoRow

\* C10: when the stored timestamp of the url is no ISO timestamp,
\* check_url_expiration fails with the error of the timestamp parser, for
\* every amount and unit; it answers neither True nor False.
C10_MalformedTimestampFails ==
    [][\A t \in Threads :
         (ChecksReturn(t) /\ pc[t].row = [timestamp |-> SqlText(Garbage)]) =>
            ret'.out = ValueError
      ]_vars

C10_Witness ==
    /\ ret.op = "check_url_expiration"
    /\ ret.out = ValueError
    /\ ret.unit = "months"

\* C11: each table holds at most one row per url, whatever calls of
\* record_url_download and upsert_document were made and however they
\* interleaved; record_url_download on a url that has a row puts the instant
\* of the new call in place of the old one and adds no row, so the table is
\* as after one call made at the later instant.
C11_OneRowPerUrl ==
    \A u \in Urls :
        /\ Len(downloaded_urls[u]) <= 1
        /\ Len(documents[u]) <= 1
        /\ (recordedAt[u] # Never =>
              downloaded_urls[u] = <<[timestamp |-> SqlText(<<"iso", recordedAt[u]>>)]>>)

\* the second record_url_download of a url, made at a later instant
C11_Witness ==
    /\ ret.op = "record_url_download"
    /\ ret.prev # NoRow
    /\ ret.prev # fetchone(downloaded_urls[ret.url])
    /\ Len(downloaded_urls[ret.url]) = 1

\* C12: no row of documents has a NULL in any of its seven text columns or in
\* its timestamp; an upsert_document stores "" for an argument that is None
\* and the text itself for an argument that is a non-empty string, whatever
\* the mix of None and strings among the arguments.
C12_NoNullInDocuments ==
    /\ \A u \in Urls : \A k \in 1..Len(documents[u]) :
          \A c \in TextColumns \cup {"timestamp"} :
             documents[u][k][c] # SqlNull /\ documents[u][k][c].sql = "TEXT"
    /\ ret.op = "upsert_document" =>
          \A c \in TextColumns :
             /\ ret.doc[c] = None => documents[ret.url][1][c] = SqlText(<<>>)
             /\ (ret.doc[c] # None /\ ret.doc[c].s # <<>>) =>
                   documents[ret.url][1][c].s = ret.doc[c].s

\* an upsert_document with titulo a text, causas None and sintomas ""
C12_Witness ==
    /\ ret.op = "upsert_document"
    /\ ret.doc.causas = None
    /\ ret.doc.titulo.s # <<>>
    /\ documents[ret.url] # <<>>
    /\ documents[ret.url][1].causas = SqlText(<<>>)
    /\ documents[ret.url][1].titulo = SqlText(ret.doc.titulo.s)

\* C13: a row is never removed: a url that has a row in downloaded_urls (or
\* in documents) has one in every later state, whatever call or construction
\* of the store happens next, so the answer of was_url_downloaded for a url
\* never goes from True back to False.
C13_RowsStay ==
    [][\A u \in Urls :
         /\ downloaded_urls[u] # <<>> => downloaded_urls'[u] # <<>>
         /\ documents[u] # <<>> => documents'[u] # <<>>
         /\ Select(downloaded_urls, u) # NoRow =>
               Select(downloaded_urls', u) # NoRow
      ]_vars

\* the store was constructed again after two writes for one url, and both
\* rows are there
C13_Witness ==
    /\ ret.op = "__init__"
    /\ calls = 2
    /\ \E u \in Urls : downloaded_urls[u] # <<>> /\ documents[u] # <<>>

\* thread t takes a step of the call whose positions are ats
StepsIn(t, ats) == pc'[t] # pc[t] /\ (pc[t].at \in ats \/ pc'[t].at \in ats)
\* the url of the call thread t is in after, or was in before, the step
StepUrl(t) == IF pc'[t] # Idle THEN pc'[t].url ELSE pc[t].url

\* C14: a write touches only its own key in its own table: no step of
\* record_url_download(url) changes documents or the rows of another url in
\* downloaded_urls, and no step of upsert_document(url, ...) changes
\* downloaded_urls or the rows of another url in documents.  (So a url can
\* have a document while was_url_downloaded answers False for it.)
C14_WritesTouchOwnKey ==
    [][\A t \in Threads :
         /\ StepsIn(t, {"rec_execute", "rec_commit"}) =>
               /\ documents' = documents
               /\ \A v \in Urls \ {StepUrl(t)} :
                     downloaded_urls'[v] = downloaded_urls[v]
         /\ StepsIn(t, {"ups_execute", "ups_commit"}) =>
               /\ downloaded_urls' = downloaded_urls
               /\ \A v \in Urls \ {StepUrl(t)} :
                     documents'[v] = documents[v]
      ]_vars

\* a document was stored for a url that was never recorded as downloaded,
\* after a download was recorded for another url
C14_Witness ==
    /\ ret.op = "upsert_document"
    /\ documents[ret.url] # <<>>
    /\ Select(downloaded_urls, ret.url) = NoRow
    /\ \E v \in Urls \ {ret.url} :
          downloaded_urls[v] # <<>> /\ documents[v] = <<>>

\* C15 as stated: was_url_downloaded has no side effect at all; no step of
\* the call changes a table, a lock that outlasts the call, or any other
\* state of the store (the connections it caches and holds open).
C15_WasDownloadedChangesNothing ==
    [][\A t \in Threads :
         StepsIn(t, {"was_fetch"}) =>
            /\ TablesUnchanged
            /\ reserved' = reserved
            /\ (pc'[t] = Idle => pc[t].conn \notin shared')
            /\ _local' = _local
            /\ open' = open
      ]_vars

\* C15, amended: was_url_downloaded changes no table and leaves no lock
\* behind; of the store's other state it can change one thing, the cached
\* connection of the calling thread, which it opens and caches when the
\* thread has none, leaving the cache of every other thread as it was.
C15_WasDownloadedChangesNoTable ==
    [][\A t \in Threads :
         StepsIn(t, {"was_fetch"}) =>
            /\ TablesUnchanged
            /\ reserved' = reserved
            /\ (pc'[t] = Idle => pc[t].conn \notin shared')
            /\ \A o \in Threads \ {t} : _local'[o] = _local[o]
            /\ (_local[t] # 0 => (_local' = _local /\ open' = open))
            /\ (_local[t] = 0 =>
                  (_local'[t] \notin open /\ open' = open \cup {_local'[t]}))
      ]_vars

\* the first call of all is a was_url_downloaded: it has returned and the
\* thread's connection is cached and open
C15_Witness ==
    /\ ret.op = "was_url_downloaded"
    /\ calls = 1
    /\ \E t \in Threads : _local[t] # 0 /\ open = {_local[t]}

\* the positions a call that uses the thread's cached connection starts at
CachedEntry == {"was_fetch", "rec_execute", "ups_execute"}

\* C16: a thread's cached connection is opened by the thread's first call of
\* was_url_downloaded, record_url_download or upsert_document on the store
\* and by nothing else, every later such call of the thread uses that same
\* connection, it is replaced by no call, and no two threads ever have the
\* same connection cached; a thread that made none of these calls has none.
C16_OneConnectionPerThread ==
    [][\A t \in Threads :
         /\ _local'[t] # _local[t] =>
               \/ Construct /\ _local'[t] = 0
               \/ /\ _local[t] = 0
                  /\ pc[t] = Idle /\ pc'[t].at \in CachedEntry
                  /\ _local'[t] \notin open /\ _local'[t] \in open'
         /\ (pc[t] = Idle /\ pc'[t].at \in CachedEntry) =>
               (_local'[t] # 0 /\ pc'[t].conn = _local'[t])
         /\ \A o \in Threads \ {t} :
               _local'[t] # 0 => _local'[t] # _local'[o]
      ]_vars

\* one thread has made two calls, the second a record_url_download of a url
\* it found recorded, and holds the one connection there is; the other
\* thread has none
C16_Witness ==
    /\ calls = 2
    /\ ret.op = "record_url_download"
    /\ ret.prev # NoRow
    /\ \E t \in Threads :
          /\ _local[t] # 0
          /\ open = {_local[t]}
          /\ \A o \in Threads \ {t} : _local[o] = 0

\* C17: check_url_expiration works on a connection of its own: the call
\* opens a connection that is not the thread's cached one, leaves the cache
\* of every thread and both tables as they were, and when the call returns
\* or raises (no row, not expired, expired, unknown unit, malformed
\* timestamp) that connection is closed and holds no lock.
C17_CheckUsesOwnConnection ==
    [][\A t \in Threads :
         StepsIn(t, {"chk_fetch"}) =>
            /\ TablesUnchanged
            /\ reserved' = reserved
            /\ _local' = _local
            /\ pc'[t].at = "chk_fetch" =>
                  /\ pc'[t].conn \notin open
                  /\ \A o \in Threads : pc'[t].conn # _local[o]
                  /\ open' = open \cup {pc'[t].conn}
            /\ pc'[t] = Idle =>
                  /\ pc[t].conn \notin open'
                  /\ pc[t].conn \notin shared'
                  /\ open' = open \ {pc[t].conn}
      ]_vars

\* a thread that has a cached connection (it recorded the download) called
\* check_url_expiration, the call raised on the malformed timestamp, and
\* the cached connection is the only one open
C17_Witness ==
    /\ ret.op = "check_url_expiration"
    /\ ret.out = ValueError
    /\ ret.saw
    /\ \E t \in Threads : _local[t] # 0 /\ open = {_local[t]}
    /\ \A t \in Threads : pc[t] = Idle

\* the answer line 124 gives for a fetched row on a host whose UTC offset
\* is z, at this instant
AnswerOnHost(z, row, time_amount, time_unit) ==
    [val |-> clock + z > fromisoformat(row.timestamp.s).dt
                          + timedelta(time_unit, time_amount).delta]

\* C18: the answer of check_url_expiration does not depend on the UTC offset
\* of the host: a call that answers for a recorded url gives the answer that
\* a host at any other offset gives for the same row, amount and unit at the
\* same instant.
C18_AnswerSameOnEveryHost ==
    [][\A t \in Threads :
         (ChecksReturn(t) /\ pc[t].row # NoRow /\ ~IsError(ret'.out)) =>
            \A z \in TzOffsets :
               ret'.out = AnswerOnHost(z, pc[t].row, ret'.amount, ret'.unit)
      ]_vars
====
